---- MODULE Spec2Model ----
(***************************************************************************)
(* A model of url_check.py: the batch checker that reads the subscribed    *)
(* URLs of moztw/config.ini, requests every key URL and every truelink     *)
(* concurrently on one asyncio event loop, and prints a markdown table of  *)
(* the URLs that are redirected or unavailable.                            *)
(*                                                                         *)
(* Python strings are modelled as sequences of Unicode code points, so     *)
(* that str.startswith, the f-string formatting, list.sort (which compares *)
(* strings code point by code point) and "\n".join are computed and not    *)
(* assumed.  Python's None is the empty tuple and a present value x is the *)
(* one-element tuple <<x>>.                                                *)
(***************************************************************************)
EXTENDS Integers, Sequences, FiniteSets, TLC

\* ------------------------------------------------------------------ bounds
\* The largest number of keys in the configuration mapping.
MaxEntries == 2
\* The longest redirect chain (len(resp.history)) the network produces.
MaxHops == 2

\* ------------------------------------------------------- optional values
None == <<>>
Some(x) == <<x>>
IsSome(o) == o # None
Get(o) == o[1]

\* ------------------------------------------------------------ the strings
\* 'http'
HttpPrefix == <<104, 116, 116, 112>>
\* 'http://a'
UrlA == <<104, 116, 116, 112, 58, 47, 47, 97>>
\* 'http://b'
UrlB == <<104, 116, 116, 112, 58, 47, 47, 98>>
\* 'https://n'
UrlN == <<104, 116, 116, 112, 115, 58, 47, 47, 110>>
\* 'htt'
KeyHtt == <<104, 116, 116>>
\* '| 狀態 | 網址 | 轉址網址 |'
TitleRow == <<124, 32, 29376, 24907, 32, 124, 32, 32178, 22336, 32, 124, 32,
              36681, 22336, 32178, 22336, 32, 124>>
\* '| --- | --- | ------ |'
SeparatorRow == <<124, 32, 45, 45, 45, 32, 124, 32, 45, 45, 45, 32, 124, 32,
                  45, 45, 45, 45, 45, 45, 32, 124>>
\* '| 301 轉址 | '
MovedHead == <<124, 32, 51, 48, 49, 32, 36681, 22336, 32, 124, 32>>
\* '| 404 失效 | '
UnavailableHead == <<124, 32, 52, 48, 52, 32, 22833, 25928, 32, 124, 32>>
\* ' | '
ColumnSep == <<32, 124, 32>>
\* ' |'
RowTail == <<32, 124>>
\* '\n'
Newline == <<10>>

\* A prefix test that forgets that the string may be the shorter one.
StartswithNoLength(s, prefix) ==
    \A i \in 1..Len(prefix) : i <= Len(s) => s[i] = prefix[i]

\* str.startswith(prefix)
startswith(s, prefix) ==
    /\ Len(s) >= Len(prefix)
    /\ SubSeq(s, 1, Len(prefix)) = prefix

\* a < b on Python strings: the first differing code point decides, and a
\* proper prefix is smaller.
StrLt(a, b) ==
    \E i \in 1..Len(b) :
        /\ \A j \in 1..(i - 1) : j <= Len(a) /\ a[j] = b[j]
        /\ (i > Len(a) \/ (i <= Len(a) /\ a[i] < b[i]))

\* ------------------------------------------------------------- SiteStatus
Normal == "Normal"
Moved == "Moved"
Unavailable == "Unavailable"
SiteStatus == {Normal, Moved, Unavailable}

\* ---------------------------------------------------------- configuration
\* The keys a configuration may hold: two subscribed URLs, and a key one
\* letter short of 'http' for a section that is no subscription.
HttpKeys == {UrlA, UrlB}

EntryA == [name |-> "A", description |-> "site a", blogname |-> "a blog",
           icon |-> "default", truelink |-> UrlA]
EntryB == [name |-> "B", description |-> "site b", blogname |-> "b blog",
           icon |-> "b.png", truelink |-> UrlB]
EntryNoLink == [name |-> "C", description |-> "site c", blogname |-> "c blog",
                icon |-> "default"]
Values == {EntryA, EntryB, EntryNoLink}

\* A mapping is the sequence of its (key, value) items in insertion order;
\* the keys of a dict are distinct.
Items ==
    (HttpKeys \X Values) \cup {<<KeyHtt, EntryA>>}

Configs ==
    { c \in UNION { [1..n -> Items] : n \in 0..MaxEntries } :
        \A i, j \in 1..Len(c) : i # j => c[i][1] # c[j][1] }

\* --------------------------------------------------------------- network
\* What one GET can end with: a response (its status, the number of
\* redirect hops in resp.history, the final resp.url), or an exception of
\* the client library.
Statuses == {200, 299, 300, 301, 404, 500}
ExceptionKinds == {"ClientResponseError", "ClientConnectorError"}

\* Where a redirect chain may end.
RedirectTargets == {UrlN}

\* Without a redirect resp.url is the requested URL.
Responses(url) ==
    { [kind |-> "response", status |-> s, hops |-> h, url |-> u] :
        s \in Statuses, h \in 0..MaxHops, u \in {url} \cup RedirectTargets }

Outcomes(url) ==
    { r \in Responses(url) :
        IF r.hops = 0 THEN r.url = url ELSE r.url \in RedirectTargets }
        \cup { [kind |-> e] : e \in ExceptionKinds }

\* ------------------------------------------------- extract_urls_from_config
\* { k: v for k, v in config.items() if k.startswith('http') }
extract_urls_from_config(cfg) ==
    SelectSeq(cfg, LAMBDA item : startswith(item[1], HttpPrefix))

\* ---------------------------------------------------------- try_request
\* What a coroutine ends with: a returned value or a raised exception.
Return(v) == [exc |-> None, value |-> Some(v)]
Raise(e) == [exc |-> Some(e), value |-> None]

\* except aiohttp.ClientResponseError: the class and its subclasses.
\* ClientConnectorError derives from ClientConnectionError, not from it.
IsClientResponseError(kind) == kind = "ClientResponseError"

\* The range with its upper end included: range(200, 301).
StatusOkInclusive(status) == status \in 200..300

\* resp.status in range(200, 300)
StatusOk(status) == status \in 200..299

\* history = resp.history[0] if len(resp.history) > 0 else None; if history:
HasHistory(hops) == hops > 0

try_request(url, o) ==
    IF o.kind = "response"
    THEN IF StatusOk(o.status)
         THEN IF HasHistory(o.hops)
              THEN Return(<<Moved, Some(o.url)>>)
              ELSE Return(<<Normal, None>>)
         ELSE Return(<<Unavailable, None>>)
    ELSE IF IsClientResponseError(o.kind)
         THEN Return(<<Unavailable, None>>)
         ELSE Raise(o.kind)

\* ------------------------------------------------------ interpret_result
\* f"| 301 轉址 | {url} | {redirect_url} |"
MovedRow(url, redirect_url) ==
    MovedHead \o url \o ColumnSep \o redirect_url \o RowTail

\* The unavailable row without its empty target field: f"| 404 失效 | {url} |"
UnavailableRowTwoFields(url) ==
    UnavailableHead \o url \o RowTail

\* f"| 404 失效 | {url} | |"
UnavailableRow(url) ==
    UnavailableHead \o url \o ColumnSep \o <<124>>

interpret_result(url, response) ==
    LET status == response[1]
        redirect_url == response[2]
    IN  CASE status = Normal -> None
          [] status = Moved -> Some(MovedRow(url, Get(redirect_url)))
          [] status = Unavailable -> Some(UnavailableRow(url))

\* main.request_action: resp = await try_request(url);
\* return interpret_result(url, resp)
request_action(url, o) ==
    LET resp == try_request(url, o)
    IN  IF IsSome(resp.exc)
        THEN resp
        ELSE Return(interpret_result(url, Get(resp.value)))

VARIABLES
    config,     \* the parsed configuration handed to extract_urls_from_config
    http_urls,  \* main's http_urls
    pc,         \* where main is: start, extracted, awaiting, done, aborted
    error,      \* the exception main ended with, or None
    tasks,      \* the request_action tasks, in the order gather was given them
    gets,       \* the number of session.get calls made so far
    stdout,     \* what has been printed, one element per print call
    call        \* one try_request call on its own: its url, its outcome, its result

vars == <<config, http_urls, pc, error, tasks, gets, stdout, call>>

\* ------------------------------------------------------------------ main
\* A task asyncio.gather made of one request_action(url) coroutine.
\* pc: created (scheduled, its first step not yet run), inflight (session.get
\* awaits the network), returned, raised, cancelled.
NewTask(url) == [url |-> url, pc |-> "created", resp |-> None, ret |-> None,
                 exc |-> None]

\* A lookup that falls back on the key: value.get("truelink", key).
TruelinkOrKey(item) ==
    IF "truelink" \in DOMAIN item[2]
    THEN Return(item[2].truelink)
    ELSE Return(item[1])

\* value["truelink"] raises KeyError when the field is absent.
Truelink(item) ==
    IF "truelink" \in DOMAIN item[2]
    THEN Return(item[2].truelink)
    ELSE Raise("KeyError")

\* One check for an entry whose truelink is its key.
ChecksOfDistinct(item) ==
    IF Get(Truelink(item).value) = item[1]
    THEN <<NewTask(item[1])>>
    ELSE <<NewTask(item[1]), NewTask(Get(Truelink(item).value))>>

\* asyncio.gather(request_action(key), request_action(value["truelink"]))
ChecksOf(item) == <<NewTask(item[1]), NewTask(Get(Truelink(item).value))>>

\* The index of the first entry whose truelink lookup raises, 0 when none does.
FirstMissing(entries) ==
    IF \A i \in 1..Len(entries) : Truelink(entries[i]).exc = None
    THEN 0
    ELSE CHOOSE i \in 1..Len(entries) :
            /\ Truelink(entries[i]).exc # None
            /\ \A j \in 1..(i - 1) : Truelink(entries[j]).exc = None

\* The tasks the generator expression creates for the first n entries, in
\* the order of http_urls.items().
RECURSIVE CreateTasks(_, _)
CreateTasks(entries, n) ==
    IF n = 0 THEN <<>>
    ELSE CreateTasks(entries, n - 1) \o ChecksOf(entries[n])

\* The outer gather's result: one [key result, truelink result] per entry,
\* in argument order whatever the completion order was.
RawResponse(ts) ==
    [i \in 1..(Len(ts) \div 2) |-> <<ts[2 * i - 1].ret, ts[2 * i].ret>>]

\* [entry for entries in raw_response for entry in entries]
RECURSIVE Flatten(_)
Flatten(raw) ==
    IF raw = <<>> THEN <<>> ELSE Head(raw) \o Flatten(Tail(raw))

\* The filter that also drops a row already seen.
DropNoneAndRepeats(entries) ==
    LET idx == { i \in 1..Len(entries) :
                    /\ entries[i] # None
                    /\ \A j \in 1..(i - 1) : entries[j] # entries[i] }
        RECURSIVE Pick(_)
        Pick(n) == IF n = 0 THEN <<>>
                   ELSE IF n \in idx THEN Append(Pick(n - 1), Get(entries[n]))
                   ELSE Pick(n - 1)
    IN  Pick(Len(entries))

\* filter(lambda x: x != None, ...)
DropNone(entries) ==
    LET kept == SelectSeq(entries, LAMBDA x : x # None)
    IN  [i \in 1..Len(kept) |-> Get(kept[i])]

\* list.sort(): ascending by <, stable.  The place of rows[i] in the result
\* is one more than the number of rows that go before it: the smaller ones,
\* and the equal ones that stood before it.
SortedPlace(rows, i) ==
    1 + Cardinality({ j \in 1..Len(rows) :
                        \/ StrLt(rows[j], rows[i])
                        \/ (rows[j] = rows[i] /\ j < i) })

\* The rows left in the order the gather returned them.
SortRowsSkipped(rows) == rows

SortRows(rows) ==
    [k \in 1..Len(rows) |->
        rows[CHOOSE i \in 1..Len(rows) : SortedPlace(rows, i) = k]]

\* response.insert(0, title); response.insert(1, separator)
AddHeaders(rows) == <<TitleRow, SeparatorRow>> \o rows

\* "\n".join(response)
RECURSIVE JoinLines(_)
JoinLines(lines) ==
    IF lines = <<>> THEN <<>>
    ELSE IF Len(lines) = 1 THEN lines[1]
    ELSE lines[1] \o Newline \o JoinLines(Tail(lines))

\* The header rows inserted before the sort instead of after it.
ResponseHeadersSorted(ts) == SortRows(AddHeaders(DropNone(Flatten(RawResponse(ts)))))

\* Lines 125-132 of main: flatten, drop None, sort, add the header rows.
Response(ts) == AddHeaders(SortRows(DropNone(Flatten(RawResponse(ts)))))

\* A wait that returns at the first task that has returned.
GatherFirstDone(ts) == ts = <<>> \/ \E i \in 1..Len(ts) : ts[i].pc = "returned"

\* await asyncio.gather(...) returns once every task has returned.
GatherDone(ts) == \A i \in 1..Len(ts) : ts[i].pc = "returned"

\* gather without return_exceptions raises the first exception of a task.
GatherRaised(ts) == \E i \in 1..Len(ts) : ts[i].pc = "raised"

\* The event loop runs the ready tasks in the order they were created, and
\* polls the network only when none is left to run.
CanStart(ts, i) ==
    /\ ts[i].pc = "created"
    /\ \A j \in 1..(i - 1) : ts[j].pc # "created"

CanReceive(ts, i) ==
    /\ ts[i].pc = "inflight"
    /\ \A j \in 1..Len(ts) : ts[j].pc # "created"

\* asyncio.run cancels the tasks still pending after main has ended.
CancelPending(ts) ==
    [i \in 1..Len(ts) |->
        IF ts[i].pc \in {"created", "inflight"}
        THEN [ts[i] EXCEPT !.pc = "cancelled"]
        ELSE ts[i]]

NoCall == [url |-> <<>>, outcome |-> [kind |-> "none"], result |-> None]

Init ==
    /\ config \in Configs
    /\ http_urls = <<>>
    /\ pc = "start"
    /\ error = None
    /\ tasks = <<>>
    /\ gets = 0
    /\ stdout = <<>>
    /\ call = NoCall

\* http_urls = extract_urls_from_config(dict(config))
Extract ==
    /\ pc = "start"
    /\ http_urls' = extract_urls_from_config(config)
    /\ pc' = "extracted"
    /\ UNCHANGED <<config, error, tasks, gets, stdout, call>>

\* The argument list of the outer gather is built entry by entry; a missing
\* truelink raises KeyError out of main before anything is awaited.  The
\* tasks the inner gathers made for the entries before it stay scheduled.
Launch ==
    /\ pc = "extracted"
    /\ LET m == FirstMissing(http_urls)
       IN  IF m = 0
           THEN /\ tasks' = CreateTasks(http_urls, Len(http_urls))
                /\ pc' = "awaiting"
                /\ error' = None
           ELSE /\ tasks' = CreateTasks(http_urls, m - 1)
                /\ pc' = "aborted"
                /\ error' = Some("KeyError")
    /\ UNCHANGED <<config, http_urls, gets, stdout, call>>

\* A task's first step: try_request opens a session and calls session.get.
\* A scheduled task runs whatever has become of main.
StartCheck(i) ==
    /\ CanStart(tasks, i)
    /\ tasks' = [tasks EXCEPT ![i].pc = "inflight"]
    /\ gets' = gets + 1
    /\ UNCHANGED <<config, http_urls, pc, error, stdout, call>>

\* The GET of task i ends with outcome o and the task runs to its end, also
\* in the turns between the end of main and the cancellation by asyncio.run.
\* When main ended before its first await the loop stops in the turn that
\* runs the first steps of the tasks, and no answer is taken any more.
Receive(i, o) ==
    /\ pc = "awaiting" \/ (pc = "aborted" /\ error # Some("KeyError"))
    /\ CanReceive(tasks, i)
    /\ LET url == tasks[i].url
           tried == try_request(url, o)
           done == request_action(url, o)
       IN  tasks' = [tasks EXCEPT ![i] =
              IF IsSome(done.exc)
              THEN [@ EXCEPT !.pc = "raised", !.exc = done.exc]
              ELSE [@ EXCEPT !.pc = "returned", !.resp = tried.value,
                             !.ret = Get(done.value)]]
    /\ UNCHANGED <<config, http_urls, pc, error, gets, stdout, call>>

\* The exception of a task reaches main through both gathers and ends it.
Propagate ==
    /\ pc = "awaiting"
    /\ GatherRaised(tasks)
    /\ \E i \in 1..Len(tasks) :
          /\ tasks[i].pc = "raised"
          /\ \A j \in 1..(i - 1) : tasks[j].pc # "raised"
          /\ error' = tasks[i].exc
    /\ pc' = "aborted"
    /\ UNCHANGED <<config, http_urls, tasks, gets, stdout, call>>

\* asyncio.run, once main has ended with an exception and the scheduled
\* tasks have run their first step, cancels the tasks still pending.
Shutdown ==
    /\ pc = "aborted"
    /\ \A i \in 1..Len(tasks) : tasks[i].pc # "created"
    /\ \E i \in 1..Len(tasks) : tasks[i].pc = "inflight"
    /\ tasks' = CancelPending(tasks)
    /\ UNCHANGED <<config, http_urls, pc, error, gets, stdout, call>>

\* The gather returns and main formats, sorts and prints the report.
Finish ==
    /\ pc = "awaiting"
    /\ GatherDone(tasks)
    /\ stdout' = Append(stdout, JoinLines(Response(tasks)))
    /\ pc' = "done"
    /\ UNCHANGED <<config, http_urls, error, tasks, gets, call>>

Next ==
    \/ Extract
    \/ Launch
    \/ \E i \in 1..Len(tasks) : StartCheck(i)
    \/ \E i \in 1..Len(tasks) : \E o \in Outcomes(tasks[i].url) : Receive(i, o)
    \/ Propagate
    \/ Shutdown
    \/ Finish

Spec == Init /\ [][Next]_vars

\* The event loop resumes main once the gather it awaits is done; the network
\* owes no answer to a request.  The only step of Next that takes main from
\* awaiting to done is Finish, which is enabled exactly when the gather is
\* done, so weak fairness of Resume on pc is weak fairness of Finish.
Resume == pc = "awaiting" /\ GatherDone(tasks) /\ pc' = "done"

LiveSpec == Spec /\ WF_pc(Resume)

\* ------------------------------------------- try_request taken on its own
\* One call of try_request on every URL and every outcome of its GET.
InitTry ==
    /\ config = <<>>
    /\ http_urls = <<>>
    /\ pc = "done"
    /\ error = None
    /\ tasks = <<>>
    /\ gets = 0
    /\ stdout = <<>>
    /\ \E u \in {UrlA, UrlB, UrlN} : \E o \in Outcomes(u) :
          call = [url |-> u, outcome |-> o, result |-> None]

TryCall ==
    /\ call.result = None
    /\ call' = [call EXCEPT !.result = Some(try_request(call.url, call.outcome))]
    /\ UNCHANGED <<config, http_urls, pc, error, tasks, gets, stdout>>

SpecTry == InitTry /\ [][TryCall]_vars

\* ================================================================ claims
\* The printed text cut back into its rows at every '\n'.
RECURSIVE SplitLines(_)
SplitLines(text) ==
    IF \A i \in 1..Len(text) : text[i] # 10
    THEN <<text>>
    ELSE LET k == CHOOSE i \in 1..Len(text) :
                    text[i] = 10 /\ \A j \in 1..(i - 1) : text[j] # 10
         IN  <<SubSeq(text, 1, k - 1)>> \o SplitLines(SubSeq(text, k + 1, Len(text)))

Printed == stdout # <<>>
ReportLines == SplitLines(stdout[1])
DataRows == SubSeq(ReportLines, 3, Len(ReportLines))

\* The rows as the specification writes them.
Row301(url, target) ==
    <<124, 32, 51, 48, 49, 32, 36681, 22336, 32, 124, 32>> \o url
        \o <<32, 124, 32>> \o target \o <<32, 124>>
Row404(url) ==
    <<124, 32, 52, 48, 52, 32, 22833, 25928, 32, 124, 32>> \o url
        \o <<32, 124, 32, 124>>

KeyIsHttp(k) ==
    Len(k) >= 4 /\ k[1] = 104 /\ k[2] = 116 /\ k[3] = 116 /\ k[4] = 112

TaskIds == 1..Len(tasks)
Returned(i) == tasks[i].pc = "returned"
StatusOf(i) == Get(tasks[i].resp)[1]

\* C1: try_request classifies a completed response by its status code and
\* the length of its redirect history: 2xx without history is (Normal,
\* absent), 2xx with one hop or more is (Moved, final URL), every other
\* status is (Unavailable, absent); the target is present iff Moved.
C1_Classification ==
    (call.result # None /\ call.outcome.kind = "response") =>
        LET o == call.outcome
            r == Get(call.result)
            ok == o.status >= 200 /\ o.status < 300
        IN  /\ r.exc = None
            /\ r.value # None
            /\ LET v == Get(r.value)
               IN  /\ (ok /\ o.hops = 0) => v = <<"Normal", <<>>>>
                   /\ (ok /\ o.hops >= 1) => v = <<"Moved", <<o.url>>>>
                   /\ ~ok => v = <<"Unavailable", <<>>>>
                   /\ (v[2] # <<>>) <=> (v[1] = "Moved")

\* A 2xx reached after more than one hop has been classified as Moved.
C1_Witness ==
    /\ call.result # None
    /\ call.outcome.kind = "response"
    /\ call.outcome.hops > 1
    /\ call.outcome.status = 299
    /\ Get(Get(call.result).value)[1] = "Moved"

\* C2: a transport- or protocol-level failure of one request never raises
\* out of try_request and never aborts the batch: no check ends with an
\* exception, and main ends with an exception only for a missing field.
C2_FailureNeverRaises ==
    /\ \A i \in TaskIds : tasks[i].pc # "raised"
    /\ (pc = "aborted" => error = <<"KeyError">>)

\* C3: interpret_result returns a row iff the status is not Normal: the 301
\* row with the URL and the target for Moved, the 404 row with the URL and
\* an empty target field for Unavailable.
C3_RowIffNotNormal ==
    \A i \in TaskIds : Returned(i) =>
        LET url == tasks[i].url
            res == Get(tasks[i].resp)
        IN  /\ (tasks[i].ret # <<>>) <=> (res[1] # "Normal")
            /\ res[1] = "Moved" => tasks[i].ret = <<Row301(url, res[2][1])>>
            /\ res[1] = "Unavailable" => tasks[i].ret = <<Row404(url)>>
            /\ res[1] = "Normal" => tasks[i].ret = <<>>

\* One check has produced each of the three results.
C3_Witness ==
    /\ \E i \in TaskIds : Returned(i) /\ StatusOf(i) = "Moved"
    /\ \E i \in TaskIds : Returned(i) /\ StatusOf(i) = "Unavailable"
    /\ \E i \in TaskIds : Returned(i) /\ StatusOf(i) = "Normal"

\* C4: a printed report starts with the title row, then the separator row,
\* and the rows after them are in non-decreasing lexicographic order.
C4_HeadersThenSorted ==
    Printed =>
        /\ Len(ReportLines) >= 2
        /\ ReportLines[1] = TitleRow
        /\ ReportLines[2] = SeparatorRow
        /\ \A i, j \in 3..Len(ReportLines) :
              i < j => ~StrLt(ReportLines[j], ReportLines[i])

\* A report of several rows whose checks returned them in descending order.
C4_Witness ==
    /\ Printed
    /\ Len(ReportLines) >= 4
    /\ \E i, j \in TaskIds :
          /\ i < j
          /\ tasks[i].ret # <<>> /\ tasks[j].ret # <<>>
          /\ StrLt(tasks[j].ret[1], tasks[i].ret[1])

\* The rows of a set of checks, smallest first: a function of the rows and
\* of how often each occurs, not of the order of the checks.
RECURSIVE RowsAscending(_)
RowsAscending(ids) ==
    IF ids = {} THEN <<>>
    ELSE LET m == CHOOSE i \in ids :
                    \A j \in ids : ~StrLt(tasks[j].ret[1], tasks[i].ret[1])
         IN  <<tasks[m].ret[1]>> \o RowsAscending(ids \ {m})

RECURSIVE JoinedByNewline(_)
JoinedByNewline(lines) ==
    IF Len(lines) = 1 THEN lines[1]
    ELSE lines[1] \o <<10>> \o JoinedByNewline(Tail(lines))

\* C5: the printed report is a function of the set of checks and their
\* results alone: whatever the order of the entries and the order in which
\* the checks completed, it is the two header rows followed by the rows of
\* the checks in ascending order.
C5_OrderIndependent ==
    Printed =>
        /\ Len(stdout) = 1
        /\ stdout[1] = JoinedByNewline(<<TitleRow, SeparatorRow>>
              \o RowsAscending({ i \in TaskIds : tasks[i].ret # <<>> }))

\* A report whose entries stand in the configuration in descending order of
\* their rows.
C5_Witness ==
    /\ Printed
    /\ Len(http_urls) = 2
    /\ StrLt(http_urls[2][1], http_urls[1][1])
    /\ tasks[1].ret # <<>> /\ tasks[3].ret # <<>>
    /\ StrLt(tasks[3].ret[1], tasks[1].ret[1])

\* C6: extract_urls_from_config keeps exactly the items whose key starts
\* with 'http', each with its value and the value's fields unchanged, in
\* the order of the mapping.
C6_ExtractExact ==
    pc # "start" =>
        /\ \A i \in 1..Len(config) :
              KeyIsHttp(config[i][1]) <=>
                  \E j \in 1..Len(http_urls) : http_urls[j][1] = config[i][1]
        /\ \A j \in 1..Len(http_urls) :
              \E i \in 1..Len(config) :
                  /\ config[i][1] = http_urls[j][1]
                  /\ DOMAIN http_urls[j][2] = DOMAIN config[i][2]
                  /\ \A f \in DOMAIN config[i][2] :
                        http_urls[j][2][f] = config[i][2][f]
        /\ \A j, k \in 1..Len(http_urls) :
              j # k => http_urls[j][1] # http_urls[k][1]

\* A mapping with a subscribed URL and the key 'htt' has been extracted.
C6_Witness ==
    /\ pc # "start"
    /\ Len(config) = 2
    /\ Len(http_urls) = 1
    /\ \E i \in 1..Len(config) : config[i][1] = KeyHtt
    /\ "truelink" \in DOMAIN http_urls[1][2]

ConfigMissesTruelink ==
    \E i \in 1..Len(config) :
        KeyIsHttp(config[i][1]) /\ "truelink" \notin DOMAIN config[i][2]

\* C7: when an extracted entry has no truelink the run aborts with a lookup
\* error and prints nothing, whatever the other entries are and whatever
\* their checks would return: main never gets to await, and no check ever
\* returns a result.
C7_MissingTruelinkAborts ==
    ConfigMissesTruelink =>
        /\ stdout = <<>>
        /\ pc \in {"start", "extracted", "aborted"}
        /\ (pc = "aborted" => error = <<"KeyError">>)
        /\ \A i \in TaskIds : tasks[i].pc \notin {"returned", "raised"}

\* The run aborted on the second entry; the two checks of the first entry
\* had been scheduled, called session.get and were then cancelled.
C7_Witness ==
    /\ ConfigMissesTruelink
    /\ pc = "aborted"
    /\ Len(tasks) = 2
    /\ gets = 2
    /\ \A i \in TaskIds : tasks[i].pc = "cancelled"
    /\ stdout = <<>>

AllChecksReturned == pc = "awaiting" /\ \A i \in TaskIds : Returned(i)

\* C8: the report is printed only after every launched check has returned,
\* and at most once; once every check has returned the report is printed.
\* So a check that never returns keeps the report from ever being printed.
C8_PrintedAfterAll ==
    /\ [](Printed => (Len(stdout) = 1 /\ \A i \in TaskIds : Returned(i)))
    /\ (AllChecksReturned ~> Printed)

\* The report of four checks has been printed.
C8_Witness ==
    /\ Printed
    /\ Len(tasks) = 4
    /\ \A i \in TaskIds : Returned(i)

RunHasAllTruelinks ==
    \/ pc \in {"awaiting", "done"}
    \/ pc = "aborted" /\ error # <<"KeyError">>

\* C9: in a run whose N entries all have a truelink exactly 2N checks are
\* created, the key URL and the truelink of each entry; each calls
\* session.get once and never again; no check has finished before the last
\* one has been started; the finished run has made exactly 2N calls.
C9_TwoChecksPerEntry ==
    RunHasAllTruelinks =>
        LET n == Len(http_urls)
        IN  /\ Len(tasks) = 2 * n
            /\ \A k \in 1..n :
                  /\ tasks[2 * k - 1].url = http_urls[k][1]
                  /\ tasks[2 * k].url = http_urls[k][2].truelink
            /\ gets = Cardinality({ i \in TaskIds : tasks[i].pc # "created" })
            /\ (\E i \in TaskIds : tasks[i].pc \in {"returned", "raised"})
                  => gets = 2 * n
            /\ pc \in {"done", "aborted"} => gets = 2 * n

\* A finished run of two entries, one of whose keys is its own truelink,
\* with a check that found its URL unavailable.
C9_Witness ==
    /\ pc = "done"
    /\ Len(http_urls) = 2
    /\ gets = 4
    /\ tasks[1].url = tasks[2].url
    /\ \E i \in TaskIds : StatusOf(i) = "Unavailable"

\* C10: the report has one data row for every check whose result is not
\* Normal, counted with multiplicity (a row that several checks produce
\* appears once for each), and only the two header rows when every check is
\* Normal.
C10_RowPerCheck ==
    Printed =>
        /\ Len(DataRows) = Cardinality({ i \in TaskIds : StatusOf(i) # "Normal" })
        /\ \A i \in TaskIds : StatusOf(i) # "Normal" =>
              Cardinality({ k \in 1..Len(DataRows) : DataRows[k] = tasks[i].ret[1] })
                = Cardinality({ j \in TaskIds : tasks[j].ret = tasks[i].ret })
        /\ (\A i \in TaskIds : StatusOf(i) = "Normal")
              => ReportLines = <<TitleRow, SeparatorRow>>

\* The key of an entry is its truelink, both checks found it unavailable,
\* and the report holds the same row twice.
C10_Witness ==
    /\ Printed
    /\ Len(tasks) >= 2
    /\ tasks[1].url = tasks[2].url
    /\ StatusOf(1) = "Unavailable" /\ StatusOf(2) = "Unavailable"
    /\ Len(DataRows) >= 2
    /\ DataRows[1] = DataRows[2]

====
